---- MODULE Spec2Model ----
(***************************************************************************)
(* Model of lib/lnbase.py: the BOLT 8 initiator handshake of main_loop and *)
(* the length-prefixed AEAD transport of send_message / read_message.      *)
(*                                                                         *)
(* Byte strings (Python bytes) are sequences of segments.  A segment       *)
(* [t, v, lo, hi] stands for the bytes lo..hi of the value v of kind t:    *)
(*   "raw"  a run of hi bytes that all have the value v                    *)
(*   "lit"  a byte literal of the source, named by the string v            *)
(*   "prv"  the 32-byte scalar of the key named v                          *)
(*   "pub"  the 33-byte compressed point v*G                               *)
(*   "pnt"  the 33-byte compressed point (product of the scalars in v)*G   *)
(*   "H"    the 32-byte SHA256 digest of the byte string v                 *)
(*   "hmac" the 32-byte HMAC-SHA256 of v = <<key, msg>>                    *)
(*   "ct"   ChaCha20 ciphertext of v.pt under key v.k and nonce v.n        *)
(*   "tag"  the 16-byte Poly1305 tag of v = [k, n, ad, pt]                 *)
(*   "flip" one byte of the segment v with one bit inverted                *)
(* Hashes, MACs and the AEAD are ideal: two digests are equal exactly when *)
(* their inputs are, and a tag verifies exactly for the key, nonce,        *)
(* associated data and ciphertext it was computed for.                     *)
(***************************************************************************)
EXTENDS Integers, Sequences, FiniteSets, TLC

----------------------------------------------------------------------------
(* Python bytes: len, +, slicing *)

Seg(t, v, lo, hi) == [t |-> t, v |-> v, lo |-> lo, hi |-> hi]

SegLen(g) == g.hi - g.lo + 1

RECURSIVE BLen(_)
BLen(s) == IF Len(s) = 0 THEN 0 ELSE SegLen(Head(s)) + BLen(Tail(s))

Joinable(g1, g2) ==
    /\ g1.t = g2.t
    /\ g1.v = g2.v
    /\ (g1.t = "raw" \/ g1.hi + 1 = g2.lo)

Join(g1, g2) ==
    IF g1.t = "raw" THEN Seg("raw", g1.v, 1, g1.hi + g2.hi)
                    ELSE Seg(g1.t, g1.v, g1.lo, g2.hi)

\* a + b
BCat(a, b) ==
    IF Len(a) = 0 THEN b
    ELSE IF Len(b) = 0 THEN a
    ELSE IF Joinable(a[Len(a)], Head(b))
         THEN SubSeq(a, 1, Len(a) - 1) \o <<Join(a[Len(a)], Head(b))>> \o Tail(b)
         ELSE a \o b

SegTake(g, n) ==
    IF g.t = "raw" THEN Seg("raw", g.v, 1, n) ELSE Seg(g.t, g.v, g.lo, g.lo + n - 1)

SegDrop(g, n) ==
    IF g.t = "raw" THEN Seg("raw", g.v, 1, g.hi - n) ELSE Seg(g.t, g.v, g.lo + n, g.hi)

\* s[:n]
RECURSIVE Take(_, _)
Take(s, n) ==
    IF n <= 0 \/ Len(s) = 0 THEN <<>>
    ELSE IF SegLen(Head(s)) <= n
         THEN <<Head(s)>> \o Take(Tail(s), n - SegLen(Head(s)))
         ELSE <<SegTake(Head(s), n)>>

\* s[n:]
RECURSIVE Drop(_, _)
Drop(s, n) ==
    IF n <= 0 \/ Len(s) = 0 THEN s
    ELSE IF SegLen(Head(s)) <= n
         THEN Drop(Tail(s), n - SegLen(Head(s)))
         ELSE <<SegDrop(Head(s), n)>> \o Tail(s)

\* s[a:b]
Slice(s, a, b) == Take(Drop(s, a), b - a)

\* b'\x..' * n
Raw(b, n) == IF n <= 0 THEN <<>> ELSE <<Seg("raw", b, 1, n)>>

RECURSIVE RawBytes(_)
RawBytes(nums) ==
    IF Len(nums) = 0 THEN <<>> ELSE BCat(Raw(Head(nums), 1), RawBytes(Tail(nums)))

\* one bit of byte i (1-based) of s inverted
FlipBit(s, i) ==
    LET g == Head(Drop(s, i - 1))
        one == SegTake(g, 1)
        bad == IF one.t = "raw"
               THEN Seg("raw", IF one.v % 2 = 0 THEN one.v + 1 ELSE one.v - 1, 1, 1)
               ELSE Seg("flip", one, 1, 1)
    IN BCat(BCat(Take(s, i - 1), <<bad>>), Drop(s, i))

----------------------------------------------------------------------------
(* lnbase.py 20-38: decode, encode *)

RECURSIVE DecodeLoop(_, _)
DecodeLoop(result, string) ==
    IF BLen(string) > 0
    THEN DecodeLoop(result * 256 + Head(string).v, Drop(string, 1))
    ELSE result

\* faulty variant: only the first byte is read
decode_first_byte(string) == DecodeLoop(0, Take(string, 1))

decode(string) == DecodeLoop(0, string)

RECURSIVE Pow(_, _)
Pow(b, e) == IF e = 0 THEN 1 ELSE b * Pow(b, e - 1)

\* the s bytes of n, most significant first
RECURSIVE BigEndian(_, _)
BigEndian(n, s) ==
    IF s = 0 THEN <<>> ELSE Append(BigEndian(n \div 256, s - 1), n % 256)

encode(n, s) == RawBytes(BigEndian(n, s))

----------------------------------------------------------------------------
(* lnbase.py 41-104: H256, nonce bytes, AEAD, HKDF, ECDH.  An operation    *)
(* that can raise returns [ok, val]: ok = FALSE is the exception.          *)

DigestLen == 32
TagLen == 16
PointLen == 33

H256(data) == <<Seg("H", data, 1, DigestLen)>>

\* hmac.new(key, msg, sha256).digest()
Hmac(key, msg) == <<Seg("hmac", <<key, msg>>, 1, DigestLen)>>

RECURSIVE ReverseSeq(_)
ReverseSeq(q) == IF Len(q) = 0 THEN <<>> ELSE Append(ReverseSeq(Tail(q)), Head(q))

\* 4 zero bytes, then the 8 bytes of n, least significant first
get_nonce_bytes(n) == <<0, 0, 0, 0>> \o ReverseSeq(BigEndian(n, 8))

aead_encrypt(k, nonce, associated_data, data) ==
    LET nonce_bytes == get_nonce_bytes(nonce)
        ct == IF BLen(data) = 0 THEN <<>>
              ELSE <<Seg("ct", [k |-> k, n |-> nonce_bytes, pt |-> data], 1, BLen(data))>>
        tag == <<Seg("tag", [k |-> k, n |-> nonce_bytes, ad |-> associated_data,
                             pt |-> data], 1, TagLen)>>
    IN ct \o tag

\* the plaintext that data's tag was computed for, when data ends in a whole tag
TagPlaintext(data) ==
    LET g == data[Len(data)]
    IN IF g.t = "tag" /\ g.lo = 1 /\ g.hi = TagLen THEN g.v.pt ELSE <<>>

\* faulty variant: the tag is not verified
aead_decrypt_unverified(k, nonce, associated_data, data) ==
    IF BLen(data) >= TagLen
    THEN [ok |-> TRUE, val |-> TagPlaintext(data)]
    ELSE [ok |-> FALSE, val |-> <<>>]

\* InvalidTag unless data is what aead_encrypt gives for these k, nonce and
\* associated_data
aead_decrypt(k, nonce, associated_data, data) ==
    IF /\ BLen(data) >= TagLen
       /\ data = aead_encrypt(k, nonce, associated_data, TagPlaintext(data))
    THEN [ok |-> TRUE, val |-> TagPlaintext(data)]
    ELSE [ok |-> FALSE, val |-> <<>>]

\* faulty variant: the two halves are returned in the other order
get_bolt8_hkdf_swapped(salt, ikm) ==
    LET prk == Hmac(salt, ikm)
        T1 == Hmac(prk, Raw(1, 1))
        T2 == Hmac(prk, BCat(T1, Raw(2, 1)))
    IN <<T2, T1>>

get_bolt8_hkdf(salt, ikm) ==
    LET prk == Hmac(salt, ikm)
        T1 == Hmac(prk, Raw(1, 1))
        T2 == Hmac(prk, BCat(T1, Raw(2, 1)))
    IN <<T1, T2>>

\* ser_to_point: a 33-byte string that is the encoding of a curve point
IsPoint(pub) == Len(pub) = 1 /\ pub[1].t = "pub" /\ pub[1].lo = 1 /\ pub[1].hi = PointLen

get_ecdh(priv, pub) ==
    IF IsPoint(pub)
    THEN [ok |-> TRUE,
          val |-> H256(<<Seg("pnt", {priv[1].v, pub[1].v}, 1, PointLen)>>)]
    ELSE [ok |-> FALSE, val |-> <<>>]

\* public_key_from_private_key(priv[:32], True)
\* faulty variant: the uncompressed encoding of the point
privkey_to_pubkey_uncompressed(priv) == <<Seg("pub", priv[1].v, 1, 65)>>

privkey_to_pubkey(priv) == <<Seg("pub", Take(priv, 32)[1].v, 1, PointLen)>>

create_ephemeral_key(privkey) == <<Take(privkey, 32), privkey_to_pubkey(privkey)>>

----------------------------------------------------------------------------
(* lnbase.py 131-153: send_message, read_message *)

LenBytes == 2
HeaderLen == 18
ReadLimit == 1024

\* int_to_hex(n, s) has s bytes only for n below 256^s
EncodeFits(n, s) == n < Pow(256, s)

\* faulty variant: the body is written before the length
send_message_body_first(msg, k, n) ==
    LET lc == aead_encrypt(k, n, <<>>, encode(BLen(msg), LenBytes))
        c == aead_encrypt(k, n + 1, <<>>, msg)
    IN [ok |-> EncodeFits(BLen(msg), LenBytes), val |-> BCat(c, lc)]

\* what send_message hands to writer.write; ok = FALSE when it raises first
send_message(msg, k, n) ==
    LET l == encode(BLen(msg), LenBytes)
        lc == aead_encrypt(k, n, <<>>, l)
        c == aead_encrypt(k, n + 1, <<>>, msg)
    IN IF /\ EncodeFits(BLen(msg), LenBytes)
          /\ BLen(lc) = HeaderLen
          /\ BLen(c) = BLen(msg) + TagLen
       THEN [ok |-> TRUE, val |-> BCat(lc, c)]
       ELSE [ok |-> FALSE, val |-> <<>>]

\* faulty variant: returns as soon as the length verifies, whatever the body
read_message_body_early(k, n, buf) ==
    LET l == aead_decrypt(k, n, <<>>, Take(buf, HeaderLen))
        msg == aead_decrypt(k, n + 1, <<>>, Drop(buf, HeaderLen))
    IN IF ~l.ok
       THEN [kind |-> "raise", msg |-> <<>>, tried |-> <<n>>, line |-> 147]
       ELSE [kind |-> "return", msg |-> msg.val, tried |-> <<n, n + 1>>, line |-> 0]

\* One pass of read_message's loop body after reader.read has returned and
\* its bytes are in buf: "continue" (await the next read), "return" or "raise".
\* tried lists the nonces handed to aead_decrypt, line is where it raised.
read_message_body(k, n, buf) ==
    LET lc == Take(buf, HeaderLen)
        l == aead_decrypt(k, n, <<>>, lc)
        length == decode(l.val)
        c == Slice(buf, HeaderLen, HeaderLen + length + TagLen)
        msg == aead_decrypt(k, n + 1, <<>>, c)
    IN IF ~l.ok
       THEN [kind |-> "raise", msg |-> <<>>, tried |-> <<n>>, line |-> 147]
       ELSE IF BLen(buf) < HeaderLen + length + TagLen
       THEN [kind |-> "continue", msg |-> <<>>, tried |-> <<n>>, line |-> 0]
       ELSE IF ~msg.ok
       THEN [kind |-> "raise", msg |-> <<>>, tried |-> <<n, n + 1>>, line |-> 152]
       ELSE [kind |-> "return", msg |-> msg.val, tried |-> <<n, n + 1>>, line |-> 0]

Min(a, b) == IF a < b THEN a ELSE b

\* The sizes reader.read(ReadLimit) can return when avail bytes are still to
\* come: whatever has arrived, at least one byte and at most ReadLimit.  The
\* model tries the sizes around the header length and the largest one.
ChunkSizes(avail) ==
    {n \in {1, HeaderLen - 1, HeaderLen, Min(ReadLimit, avail)} :
        1 <= n /\ n <= Min(ReadLimit, avail)}

----------------------------------------------------------------------------
(* lnbase.py 44-57, 106-118: HandshakeState, act1_initiator_message *)

prologue == <<Seg("lit", "lightning", 1, 9)>>
protocol_name == <<Seg("lit", "Noise_XK_secp256k1_ChaChaPoly_SHA256", 1, 36)>>
handshake_version == Raw(0, 1)

Act1Len == 50

\* faulty variant: h is started again from data
update_reset(h, data) == H256(data)

\* HandshakeState.update: the new value of h
update(h, data) == H256(BCat(h, data))

\* HandshakeState.__init__
HandshakeState(responder_pub) ==
    [responder_pub |-> responder_pub,
     h |-> update(update(H256(protocol_name), prologue), responder_pub),
     ck |-> H256(protocol_name)]

\* the ephemeral key, the handshake state it leaves and the message it returns
act1_initiator_message(hs0, my_privkey) ==
    LET e == create_ephemeral_key(my_privkey)
        epriv == e[1]
        epub == e[2]
        h1 == update(hs0.h, epub)
        ss == get_ecdh(epriv, hs0.responder_pub)
        kd == get_bolt8_hkdf(hs0.ck, ss.val)
        c == aead_encrypt(kd[2], 0, h1, <<>>)
        msg == BCat(BCat(handshake_version, epub), c)
    IN [ok |-> ss.ok /\ BLen(msg) = Act1Len,
        epriv |-> epriv,
        epub |-> epub,
        hs |-> [hs0 EXCEPT !.h = update(h1, c), !.ck = kd[1]],
        msg |-> msg]

----------------------------------------------------------------------------
(* The keys of a run of __main__ (lnbase.py 224-239) and its peer *)

\* privkey: 32 scalar bytes and the compression flag
my_privkey == <<Seg("prv", "initiator", 1, 32)>> \o Raw(1, 1)

\* pubkey of node_list: the static key of the responder
pubkey == <<Seg("pub", "responder", 1, PointLen)>>

\* the responder's ephemeral key pair
peer_epriv == <<Seg("prv", "responder_e", 1, 32)>>
peer_epub == <<Seg("pub", "responder_e", 1, PointLen)>>

\* a key that no handshake derives
stray_key == Hmac(Raw(0, DigestLen), <<>>)

----------------------------------------------------------------------------
(* lnbase.py 165-193: main_loop from the reply to Act 1 to the counters *)

\* faulty variant: the version byte is not looked at
VersionOk_unchecked(rspns0) == TRUE

\* 167-168: the first byte of the reply is the handshake version
VersionOk(rspns0) == Take(rspns0, 1) = handshake_version

\* What main_loop does with the bytes rspns that reader.read returned for
\* Act 2: err names the exception that ends it ("" for none) and line where
\* it is raised; hs is the handshake state, msg what has been written and
\* sk, rk the keys derived (<<>> for none) at that point.
act2_act3(hs0, rspns0, privkey) ==
    LET alice_epub == Slice(rspns0, 1, 34)
        tag == Drop(rspns0, 34)
        h2 == update(hs0.h, alice_epub)
        myepriv == create_ephemeral_key(privkey)[1]
        ss2 == get_ecdh(myepriv, alice_epub)
        kd2 == get_bolt8_hkdf(hs0.ck, ss2.val)
        temp_k2 == kd2[2]
        p == aead_decrypt(temp_k2, 0, h2, tag)
        h2t == update(h2, tag)
        my_pubkey == privkey_to_pubkey(privkey)
        c == aead_encrypt(temp_k2, 1, h2t, my_pubkey)
        h3 == update(h2t, c)
        ss3 == get_ecdh(Take(privkey, 32), alice_epub)
        kd3 == get_bolt8_hkdf(kd2[1], ss3.val)
        t == aead_encrypt(kd3[2], 0, h3, <<>>)
        keys == get_bolt8_hkdf(kd3[1], <<>>)
        none == [err |-> "", line |-> 0, hs |-> hs0, msg |-> <<>>, sk |-> <<>>,
                 rk |-> <<>>]
    IN IF BLen(rspns0) # Act1Len
       THEN [none EXCEPT !.err = "AssertionError", !.line = 166]
       ELSE IF ~VersionOk(rspns0)
       THEN [none EXCEPT !.err = "AssertionError", !.line = 168]
       ELSE IF ~ss2.ok
       THEN [none EXCEPT !.err = "InvalidKey", !.line = 173,
                         !.hs = [hs0 EXCEPT !.h = h2]]
       ELSE IF ~p.ok
       THEN [none EXCEPT !.err = "InvalidTag", !.line = 176,
                         !.hs = [hs0 EXCEPT !.h = h2, !.ck = kd2[1]]]
       ELSE [err |-> "",
             line |-> 0,
             hs |-> [hs0 EXCEPT !.h = h3, !.ck = kd3[1]],
             msg |-> BCat(BCat(handshake_version, c), t),
             sk |-> keys[1],
             rk |-> keys[2]]

\* lnbase.py 201 and 206-209
init_msg == BCat(BCat(encode(16, 2), encode(0, 2)), encode(0, 2))
ping_msg == BCat(BCat(BCat(encode(18, 2), encode(4, 2)), encode(4, 2)), Raw(0, 4))

----------------------------------------------------------------------------
(* The responder at the other end of the stream *)

\* The Act 2 message of a responder that holds the static key and has the
\* transcript hs0 of Act 1: version, its ephemeral point, the tag.
peer_act2(hs0, epub) ==
    LET h2 == update(hs0.h, peer_epub)
        ss == get_ecdh(peer_epriv, epub)
        kd == get_bolt8_hkdf(hs0.ck, ss.val)
    IN BCat(BCat(handshake_version, peer_epub), aead_encrypt(kd[2], 0, h2, <<>>))

Act2Replies == {"good", "badtag", "badversion", "short", "long", "badpoint"}

\* the bytes the peer sends in reply to Act 1
peer_reply(kind, hs0, epub) ==
    LET good == peer_act2(hs0, epub)
    IN CASE kind = "good" -> good
         [] kind = "badtag" -> FlipBit(good, Act1Len)
         [] kind = "badversion" -> FlipBit(good, 1)
         [] kind = "short" -> Take(good, Act1Len - 1)
         [] kind = "long" -> BCat(good, Raw(0, 1))
         [] kind = "badpoint" -> FlipBit(good, 2)

FrameKinds == {"good", "badkey", "fliplen", "flipbody"}

\* lnbase.py 201, 206-209 at the peer's end: its init, then its pong (type
\* 19, 4 bytes), then pings
pong_msg == BCat(BCat(encode(19, 2), encode(4, 2)), Raw(0, 4))
peer_msg(i) == IF i = 1 THEN init_msg ELSE IF i = 2 THEN pong_msg ELSE ping_msg

\* a transport frame from the peer: the bytes send_message writes at its end
peer_frame(kind, msg, k, n) ==
    LET good == send_message(msg, k, n).val
    IN CASE kind = "good" -> good
         [] kind = "badkey" -> send_message(msg, stray_key, n).val
         [] kind = "fliplen" -> FlipBit(good, 1)
         [] kind = "flipbody" -> FlipBit(good, BLen(good))


----------------------------------------------------------------------------
(* State *)

VARIABLES
    pc,         \* where main_loop (or the framing harness) stands
    hs,         \* the HandshakeState object: responder_pub, h, ck
    sk, rk,     \* transport keys (<<>> before line 187)
    sn, rn,     \* nonce counters
    rspns,      \* read_message's buffer
    inbox,      \* bytes the peer has sent that no reader.read has returned yet
    eof,        \* the peer has closed the stream
    wlog,       \* the arguments of the writer.write calls, in order
    closed,     \* writer.close() has been called
    err,        \* the exception that ended main_loop, "" for none
    at,         \* the source line that raised it
    printed,    \* the arguments of the process_message calls, in order
    rx,         \* per returned read_message: its result, buffer and nonce
    tx,         \* per message the peer has sent: its kind and plaintext
    used,       \* the AEAD calls of the transport: direction, key, nonce,
                \* index of the message in its direction, length or body
    run,        \* number of main_loop calls so far
    ekeys,      \* per main_loop call: the ephemeral key pair of its Act 1
    reply,      \* what the reader.read of line 165 returned
    other,      \* the state of a second connection, suspended at an await
                \* while this one runs
    nsw         \* how many times the event loop has gone from one connection
                \* to the other

vars == <<pc, hs, sk, rk, sn, rn, rspns, inbox, eof, wlog, closed, err, at,
          printed, rx, tx, used, run, ekeys, reply, other, nsw>>

\* bounds of the model
MaxRuns == 2
MaxFrames == 2

NoHs == [responder_pub |-> <<>>, h |-> <<>>, ck |-> <<>>]

\* a connection for which main_loop has not been called yet
IdleConn ==
    [pc |-> "idle", hs |-> NoHs, sk |-> <<>>, rk |-> <<>>, sn |-> 0, rn |-> 0,
     rspns |-> <<>>, inbox |-> <<>>, eof |-> FALSE, wlog |-> <<>>,
     closed |-> FALSE, err |-> "", at |-> 0, printed |-> <<>>, rx |-> <<>>,
     tx |-> <<>>, used |-> {}, ekeys |-> <<>>, reply |-> <<>>]

Init ==
    /\ pc = "idle"
    /\ hs = NoHs
    /\ sk = <<>> /\ rk = <<>>
    /\ sn = 0 /\ rn = 0
    /\ rspns = <<>>
    /\ inbox = <<>>
    /\ eof = FALSE
    /\ wlog = <<>>
    /\ closed = FALSE
    /\ err = "" /\ at = 0
    /\ printed = <<>>
    /\ rx = <<>>
    /\ tx = <<>>
    /\ used = {}
    /\ run = 0
    /\ ekeys = <<>>
    /\ reply = <<>>
    /\ other = IdleConn
    /\ nsw = 0

----------------------------------------------------------------------------
(* main_loop, lnbase.py 157-219 *)

\* 157-164: a call of main_loop up to its first await on the reader: the
\* connection is new, Act 1 is built and written
Connect ==
    /\ pc \in {"idle", "done", "failed"}
    /\ run < MaxRuns
    /\ LET a == act1_initiator_message(HandshakeState(pubkey), my_privkey)
       IN /\ hs' = a.hs
          /\ wlog' = <<a.msg>>
          /\ ekeys' = Append(ekeys, [epriv |-> a.epriv, epub |-> a.epub])
    /\ pc' = "act2"
    /\ run' = run + 1
    /\ sk' = <<>> /\ rk' = <<>> /\ sn' = 0 /\ rn' = 0
    /\ rspns' = <<>> /\ inbox' = <<>> /\ eof' = FALSE /\ closed' = FALSE
    /\ err' = "" /\ at' = 0
    /\ printed' = <<>> /\ rx' = <<>> /\ tx' = <<>> /\ used' = {}
    /\ reply' = <<>>
    /\ UNCHANGED <<other, nsw>>

\* the bytes a reader.read(ReadLimit) can return now: a prefix of the inbox,
\* or nothing once the stream is at its end; none while it has to wait
ReadResults ==
    IF BLen(inbox) > 0 THEN {Take(inbox, n) : n \in ChunkSizes(BLen(inbox))}
    ELSE IF eof THEN {<<>>}
    ELSE {}

\* 165-193: the reply to Act 1 arrives; Act 2 is checked, Act 3 written,
\* the counters set
Act2 ==
    /\ pc = "act2"
    /\ \E chunk \in ReadResults :
         LET r == act2_act3(hs, chunk, my_privkey)
         IN /\ inbox' = Drop(inbox, BLen(chunk))
            /\ reply' = chunk
            /\ hs' = r.hs
            /\ err' = r.err
            /\ at' = r.line
            /\ wlog' = IF BLen(r.msg) > 0 THEN Append(wlog, r.msg) ELSE wlog
            /\ sk' = r.sk
            /\ rk' = r.rk
            /\ pc' = IF r.err = "" THEN "read_init" ELSE "failed"
    /\ sn' = 0 /\ rn' = 0
    /\ UNCHANGED <<rspns, eof, closed, printed, rx, tx, used, run, ekeys,
                   other, nsw>>

Parts == <<"length", "body">>

Uses(dir, k, nonces, idx) ==
    {[dir |-> dir, k |-> k, n |-> nonces[i], idx |-> idx, part |-> Parts[i]] :
        i \in 1..Len(nonces)}

\* faulty variant: one nonce per message
NextNonce_by_one(n) == n + 1

\* sn += 2, rn += 2
NextNonce(n) == n + 2

\* 196-198 and 214-216: one reader.read of read_message, which returns one
\* of results, and what follows it; on return, process_message and rn += 2
ReadMessage(results, next) ==
    \E chunk \in results :
       LET buf == BCat(rspns, chunk)
           r == read_message_body(rk, rn, buf)
       IN /\ inbox' = Drop(inbox, BLen(chunk))
          /\ used' = used \cup Uses("recv", rk, r.tried, Len(printed))
          /\ CASE r.kind = "continue" ->
                    /\ rspns' = buf
                    /\ UNCHANGED <<pc, err, at, printed, rx, rn>>
               [] r.kind = "raise" ->
                    /\ pc' = "failed"
                    /\ err' = "InvalidTag"
                    /\ at' = r.line
                    /\ rspns' = buf
                    /\ UNCHANGED <<printed, rx, rn>>
               [] r.kind = "return" ->
                    /\ pc' = next
                    /\ printed' = Append(printed, r.msg)
                    /\ rx' = Append(rx, [msg |-> r.msg, buf |-> buf, n |-> rn])
                    /\ rn' = NextNonce(rn)
                    /\ rspns' = <<>>
                    /\ UNCHANGED <<err, at>>
          /\ UNCHANGED <<hs, sk, rk, sn, eof, wlog, closed, tx, run, ekeys, reply,
                   other, nsw>>

\* faulty variant: the init is read without waiting for the end of Act 2
ReadInit_early == pc \in {"act2", "read_init"} /\ ReadMessage(ReadResults, "send_init")

ReadInit == pc = "read_init" /\ ReadMessage(ReadResults, "send_init")

ReadPong == pc = "read_pong" /\ ReadMessage(ReadResults, "close")

\* faulty variant: one counter serves both directions
SendMessage_shared_counter(msg, next) ==
    LET r == send_message(msg, sk, sn)
    IN /\ wlog' = Append(wlog, r.val)
       /\ used' = used \cup Uses("send", sk, <<sn, sn + 1>>, Len(wlog) - 2)
       /\ sn' = NextNonce(sn)
       /\ rn' = NextNonce(sn)
       /\ pc' = next
       /\ UNCHANGED <<hs, sk, rk, rspns, inbox, eof, closed, printed, rx, tx,
                      run, ekeys, reply, err, at,
                   other, nsw>>

\* 202-203 and 210-211: send_message and sn += 2
SendMessage(msg, next) ==
    LET r == send_message(msg, sk, sn)
    IN /\ IF r.ok
          THEN /\ wlog' = Append(wlog, r.val)
               /\ used' = used \cup Uses("send", sk, <<sn, sn + 1>>, Len(wlog) - 2)
               /\ sn' = NextNonce(sn)
               /\ pc' = next
               /\ UNCHANGED <<err, at>>
          ELSE /\ pc' = "failed"
               /\ err' = "AssertionError"
               /\ at' = 136
               /\ UNCHANGED <<wlog, used, sn>>
       /\ UNCHANGED <<hs, sk, rk, rn, rspns, inbox, eof, closed, printed, rx, tx,
                      run, ekeys, reply,
                   other, nsw>>

SendInit == pc = "send_init" /\ SendMessage(init_msg, "send_ping")

SendPing == pc = "send_ping" /\ SendMessage(ping_msg, "read_pong")

\* 219
Close ==
    /\ pc = "close"
    /\ closed' = TRUE
    /\ pc' = "done"
    /\ UNCHANGED <<hs, sk, rk, sn, rn, rspns, inbox, eof, wlog, err, at, printed,
                   rx, tx, used, run, ekeys, reply,
                   other, nsw>>

----------------------------------------------------------------------------
(* The peer *)

\* the peer answers Act 1
PeerAct2 ==
    /\ pc = "act2"
    /\ ~eof
    /\ Len(tx) = 0
    /\ \E kind \in Act2Replies :
         /\ inbox' = BCat(inbox, peer_reply(kind, hs, ekeys[Len(ekeys)].epub))
         /\ tx' = <<[kind |-> kind, msg |-> <<>>]>>
    /\ UNCHANGED <<pc, hs, sk, rk, sn, rn, rspns, eof, wlog, closed, err, at,
                   printed, rx, used, run, ekeys, reply,
                   other, nsw>>

MainFrameKinds == {"good", "fliplen", "flipbody"}

\* the peer, which has Act 3, sends its next transport frame
PeerFrame ==
    /\ pc \in {"read_init", "send_init", "send_ping", "read_pong"}
    /\ ~eof
    /\ Len(tx) - 1 < MaxFrames
    /\ \E kind \in MainFrameKinds :
         LET msg == peer_msg(Len(tx))
         IN /\ inbox' = BCat(inbox, peer_frame(kind, msg, rk, 2 * (Len(tx) - 1)))
            /\ tx' = Append(tx, [kind |-> kind, msg |-> msg])
    /\ UNCHANGED <<pc, hs, sk, rk, sn, rn, rspns, eof, wlog, closed, err, at,
                   printed, rx, used, run, ekeys, reply,
                   other, nsw>>

\* the peer closes the stream
PeerClose ==
    /\ pc \in {"act2", "read_init", "send_init", "send_ping", "read_pong"}
    /\ ~eof
    /\ eof' = TRUE
    /\ UNCHANGED <<pc, hs, sk, rk, sn, rn, rspns, inbox, wlog, closed, err, at,
                   printed, rx, tx, used, run, ekeys, reply,
                   other, nsw>>

Next ==
    \/ Connect
    \/ Act2
    \/ ReadInit
    \/ SendInit
    \/ SendPing
    \/ ReadPong
    \/ Close
    \/ PeerAct2
    \/ PeerFrame
    \/ PeerClose

Spec == Init /\ [][Next]_vars

----------------------------------------------------------------------------
(* Two main_loop coroutines on one event loop: each has its own locals, its *)
(* own HandshakeState object and its own stream; one runs until it awaits  *)
(* its reader, ends, or has not started, and then the other may be resumed *)

\* bound of the model: changes from one connection to the other
MaxSwitches == 2

\* the locals, the objects and the stream of the running connection
Conn ==
    [pc |-> pc, hs |-> hs, sk |-> sk, rk |-> rk, sn |-> sn, rn |-> rn,
     rspns |-> rspns, inbox |-> inbox, eof |-> eof, wlog |-> wlog,
     closed |-> closed, err |-> err, at |-> at, printed |-> printed, rx |-> rx,
     tx |-> tx, used |-> used, ekeys |-> ekeys, reply |-> reply]

\* the running connection is where the event loop can leave it: not started,
\* ended, or waiting in reader.read for bytes that have not come
Suspended ==
    \/ pc \in {"idle", "done", "failed"}
    \/ pc \in {"act2", "read_init", "read_pong"} /\ BLen(inbox) = 0 /\ ~eof

\* faulty variant: h and ck are kept in one place for all connections
Switch_shared_hs ==
    /\ Suspended
    /\ nsw < MaxSwitches
    /\ nsw' = nsw + 1
    /\ other' = Conn
    /\ pc' = other.pc /\ sk' = other.sk /\ rk' = other.rk
    /\ sn' = other.sn /\ rn' = other.rn /\ rspns' = other.rspns
    /\ inbox' = other.inbox /\ eof' = other.eof /\ wlog' = other.wlog
    /\ closed' = other.closed /\ err' = other.err /\ at' = other.at
    /\ printed' = other.printed /\ rx' = other.rx /\ tx' = other.tx
    /\ used' = other.used /\ ekeys' = other.ekeys /\ reply' = other.reply
    /\ UNCHANGED <<hs, run>>

\* the event loop suspends the running connection and resumes the other
Switch ==
    /\ Suspended
    /\ nsw < MaxSwitches
    /\ nsw' = nsw + 1
    /\ other' = Conn
    /\ pc' = other.pc /\ hs' = other.hs /\ sk' = other.sk /\ rk' = other.rk
    /\ sn' = other.sn /\ rn' = other.rn /\ rspns' = other.rspns
    /\ inbox' = other.inbox /\ eof' = other.eof /\ wlog' = other.wlog
    /\ closed' = other.closed /\ err' = other.err /\ at' = other.at
    /\ printed' = other.printed /\ rx' = other.rx /\ tx' = other.tx
    /\ used' = other.used /\ ekeys' = other.ekeys /\ reply' = other.reply
    /\ UNCHANGED run

\* The streams of the two connections: the peer is a responder whose Act 2
\* is valid or has a wrong tag and whose frames are valid or have a wrong
\* length field, and a read_message gets its bytes in one piece or cut after
\* the length.  Each of the two calls main_loop once, and the peer closes
\* no earlier than the wait for the pong.
Calm ==
    /\ \A i \in 1..Len(tx) : tx[i].kind \in {"good", "badtag", "fliplen"}
    /\ BLen(rspns) \in {0, HeaderLen}
    /\ at # 166

NextPair ==
    \/ Connect /\ pc = "idle"
    \/ Act2 /\ Calm'
    \/ ReadInit /\ Calm'
    \/ SendInit
    \/ SendPing
    \/ ReadPong /\ Calm'
    \/ Close
    \/ PeerAct2 /\ Calm'
    \/ PeerFrame /\ Calm'
    \/ PeerClose /\ pc = "read_pong"
    \/ Switch

SpecPair == Init /\ [][NextPair]_vars

----------------------------------------------------------------------------
(* send_message and read_message on their own: a frame is written with one *)
(* key and nonce and read from the stream with a key and a nonce that are  *)
(* the same or not                                                         *)

\* bounds of the harness
SmallLen == 2
LongLen == 1100
MaxLen == 65535

TestKeys == {stray_key, Hmac(stray_key, <<>>)}
TestNonces == {0, 1, 256}

InitFrame ==
    /\ pc = "f_send"
    /\ hs = NoHs
    /\ sk = stray_key /\ rk \in TestKeys
    /\ sn \in TestNonces /\ rn \in TestNonces
    /\ rspns = <<>>
    /\ inbox = <<>>
    /\ eof = FALSE
    /\ wlog = <<>>
    /\ closed = FALSE
    /\ err = "" /\ at = 0
    /\ printed = <<>>
    /\ rx = <<>>
    /\ tx = <<>>
    /\ used = {}
    /\ run = 0
    /\ ekeys = <<>>
    /\ reply = <<>>
    /\ other = IdleConn
    /\ nsw = 0

\* send_message(writer, msg, sk, sn) for a message of one of the lengths
\* lens; the stream carries what it wrote
FrameSend(lens) ==
    /\ pc = "f_send"
    /\ \E len \in lens :
         LET msg == Raw(7, len)
             r == send_message(msg, sk, sn)
         IN /\ tx' = <<[kind |-> "good", msg |-> msg]>>
            /\ IF r.ok
               THEN /\ wlog' = <<r.val>>
                    /\ inbox' = r.val
                    /\ pc' = "f_read"
                    /\ UNCHANGED <<err, at>>
               ELSE /\ pc' = "failed"
                    /\ err' = "AssertionError"
                    /\ at' = 136
                    /\ UNCHANGED <<wlog, inbox>>
    /\ UNCHANGED <<hs, sk, rk, sn, rn, rspns, eof, closed, printed, rx, used,
                   run, ekeys, reply,
                   other, nsw>>

\* Frames delivered whole: the stream holds the written bytes and each
\* reader.read returns all that is there, up to its limit.
RoundTripLens == (0..SmallLen) \cup {255, 256, LongLen, MaxLen, MaxLen + 1}

RtSend == FrameSend(RoundTripLens)

WholeRead ==
    IF BLen(inbox) > 0 THEN {Take(inbox, Min(ReadLimit, BLen(inbox)))} ELSE {}

RtRead == pc = "f_read" /\ ReadMessage(WholeRead, "f_done")

NextRoundTrip ==
    \/ RtSend
    \/ RtRead

SpecRoundTrip == InitFrame /\ [][NextRoundTrip]_vars

\* Frames fragmented, damaged or cut short by the stream.
FrameLens == 0..SmallLen

FSend == FrameSend(FrameLens)

\* one bit of the frame is inverted on its way
FrameTamper ==
    /\ pc = "f_read"
    /\ ~eof
    /\ inbox = wlog[1]
    /\ \E kind \in {"fliplen", "flipbody"} :
         /\ \E i \in IF kind = "fliplen" THEN {1, LenBytes + 1, HeaderLen}
                                         ELSE {HeaderLen + 1, BLen(inbox)} :
              inbox' = FlipBit(inbox, i)
         /\ tx' = <<[kind |-> kind, msg |-> tx[1].msg]>>
    /\ UNCHANGED <<pc, hs, sk, rk, sn, rn, rspns, eof, wlog, closed, err, at,
                   printed, rx, used, run, ekeys, reply,
                   other, nsw>>

\* the stream ends after the first keep bytes of the frame
FrameCut ==
    /\ pc = "f_read"
    /\ ~eof
    /\ inbox = wlog[1]
    /\ \E keep \in {0, HeaderLen - 1, HeaderLen, BLen(inbox) - 1} :
         /\ inbox' = Take(inbox, keep)
         /\ tx' = <<[kind |-> "cut", msg |-> tx[1].msg]>>
    /\ eof' = TRUE
    /\ UNCHANGED <<pc, hs, sk, rk, sn, rn, rspns, wlog, closed, err, at, printed,
                   rx, used, run, ekeys, reply,
                   other, nsw>>

\* read_message(reader, rk, rn)
FrameRead == pc = "f_read" /\ ReadMessage(ReadResults, "f_done")

NextFrame ==
    \/ FSend
    \/ FrameTamper
    \/ FrameCut
    \/ FrameRead

SpecFrame == InitFrame /\ [][NextFrame]_vars

----------------------------------------------------------------------------
(* Properties *)

Post1 == act1_initiator_message(HandshakeState(pubkey), my_privkey).hs

FramesSent == IF Len(wlog) >= 2 THEN Len(wlog) - 2 ELSE 0

FrameLenOf(msg) == HeaderLen + BLen(msg) + TagLen

\* C1: within a connection sn and rn start at 0 and grow by exactly 2 with
\* every completed send_message / read_message; the k-th message of a
\* direction uses nonce 2k for its length and 2k+1 for its body, and no
\* (key, nonce) pair serves two different encryptions.
C1_NonceDiscipline ==
    /\ sn = 2 * FramesSent
    /\ rn = 2 * Len(printed)
    /\ \A u \in used : u.n = 2 * u.idx + (IF u.part = "body" THEN 1 ELSE 0)
    /\ \A u, v \in used :
         (u.k = v.k /\ u.n = v.n) => (u.dir = v.dir /\ u.idx = v.idx /\ u.part = v.part)

\* both messages of both directions have gone through
C1_Witness == pc = "done" /\ Cardinality(used) = 8 /\ sn = 4 /\ rn = 4

\* C2: a frame written by send_message for (plaintext, k, n), with
\* 0 <= N <= 65535, read back from a stream that holds exactly its bytes:
\* read_message with the same key and nonce returns the plaintext (and never
\* needs a byte the stream does not hold); with another key or another nonce
\* it raises InvalidTag and returns nothing.
C2_RoundTrip ==
    /\ pc = "f_done" => (rk = sk /\ rn = sn + 2 /\ printed = <<tx[1].msg>>)
    /\ (pc = "failed" /\ Len(wlog) = 1) =>
          /\ rk # sk \/ rn # sn
          /\ err = "InvalidTag"
          /\ printed = <<>>
    /\ pc = "f_read" => BLen(inbox) > 0
    /\ (pc = "failed" /\ Len(wlog) = 0) => BLen(tx[1].msg) > 65535

\* the longest frame has made the round trip
C2_Witness == pc = "f_done" /\ BLen(printed[1]) = 65535 /\ BLen(wlog[1]) = 65569

\* C3 as claimed: whatever the chunks in which the stream returns a valid
\* frame, read_message returns its plaintext (it never raises).
C3_Claim ==
    (Len(tx) = 1 /\ tx[1].kind = "good" /\ rk = sk /\ rn = sn) => pc # "failed"

\* C4 as claimed: when the peer has sent two valid frames and one
\* reader.read has returned bytes of both, the second read_message still
\* returns the second plaintext (it never raises).
C4_Claim ==
    (/\ Len(tx) >= 3 /\ tx[2].kind = "good" /\ tx[3].kind = "good"
     /\ Len(rx) >= 1 /\ BLen(rx[1].buf) > FrameLenOf(rx[1].msg))
    => pc # "failed"

\* C5 as claimed: when the stream ends while the frame is incomplete,
\* read_message ends with a connection error: an exception that ends it
\* there is a ConnectionError, and it does not go on reading the ended
\* stream without effect.
C5_Claim ==
    /\ (pc = "failed" /\ Len(tx) = 1 /\ tx[1].kind = "cut" /\ BLen(inbox) = 0)
          => err = "ConnectionError"
    /\ (pc = "f_read" /\ eof /\ BLen(inbox) = 0) => ENABLED <<FrameRead>>_vars

\* C6: when the peer's Act 2 reply arrives whole and its tag does not
\* verify (and whenever aead_decrypt raises at line 176), main_loop ends
\* there with InvalidTag: only Act 1 has been written, no transport key
\* exists, no frame has been sent or read.
C6_Act2TagFailureStops ==
    (at = 176 \/ (Len(tx) >= 1 /\ tx[1].kind = "badtag" /\ BLen(reply) = Act1Len)) =>
        /\ pc = "failed" /\ err = "InvalidTag" /\ at = 176
        /\ Len(wlog) = 1 /\ BLen(wlog[1]) = Act1Len
        /\ sk = <<>> /\ rk = <<>>
        /\ used = {} /\ rx = <<>> /\ printed = <<>>

C6_Witness == Len(tx) >= 1 /\ tx[1].kind = "badtag" /\ BLen(reply) = Act1Len

\* C7: when the reply to Act 1 is not 50 bytes long or does not start with
\* 0x00, main_loop ends with an AssertionError: h and ck are those of the
\* end of Act 1, nothing but Act 1 has been written, no key is derived.
C7_BadReplyStops ==
    (pc \notin {"idle", "f_send", "f_read", "f_done", "act2"}
       /\ Len(wlog) >= 1
       /\ (BLen(reply) # Act1Len \/ Take(reply, 1) # Raw(0, 1))) =>
        /\ pc = "failed" /\ err = "AssertionError" /\ at \in {166, 168}
        /\ hs = Post1
        /\ Len(wlog) = 1
        /\ sk = <<>> /\ rk = <<>>

\* a whole reply with a wrong version byte has been read
C7_Witness ==
    pc = "failed" /\ BLen(reply) = Act1Len /\ Take(reply, 1) # Raw(0, 1)

\* C8 as claimed: the ephemeral keys of two calls of main_loop differ.
C8_Claim ==
    \A i, j \in 1..Len(ekeys) :
        i # j => (ekeys[i].epriv # ekeys[j].epriv /\ ekeys[i].epub # ekeys[j].epub)

\* C9 as claimed: when a bit of the encrypted length is inverted,
\* read_message raises InvalidTag with no byte of the body taken from the
\* stream and without a body decryption.
C9_Claim ==
    (Len(tx) = 1 /\ tx[1].kind = "fliplen" /\ pc = "failed") =>
        /\ err = "InvalidTag"
        /\ BLen(rspns) <= HeaderLen
        /\ \A u \in used : u.part = "length"

\* C10: every plaintext read_message returns, and process_message gets no
\* other, comes from a buffer of at least 18 + N + 16 bytes whose first 18
\* are the encryption of N under rn and whose next N + 16 are the
\* encryption of the plaintext under rn + 1, N being its length.
C10_OnlyWholeFrames ==
    /\ Len(printed) = Len(rx)
    /\ \A i \in 1..Len(rx) :
         LET m == rx[i].msg
         IN /\ printed[i] = m
            /\ BLen(rx[i].buf) >= FrameLenOf(m)
            /\ Take(rx[i].buf, HeaderLen)
                 = aead_encrypt(rk, rx[i].n, <<>>, encode(BLen(m), LenBytes))
            /\ Slice(rx[i].buf, HeaderLen, FrameLenOf(m))
                 = aead_encrypt(rk, rx[i].n + 1, <<>>, m)

\* process_message has been called for the init and for the pong
C10_Witness == Len(printed) = 2 /\ printed[1] = init_msg /\ printed[2] = pong_msg

\* The states of the connection: 0 INIT, 1 ACT1_SENT, 2 ACT2_DONE (the tag of
\* Act 2 verified), 3 ACT3_DONE (Act 3 written), 4 TRANSPORT_READY (keys and
\* counters set).  Lines 170-193 run without an await, so a state of the
\* model between two steps is in 0, 1 or 4; a failed main_loop stays where
\* it was.
Phase ==
    CASE pc = "idle" -> 0
      [] pc = "act2" -> 1
      [] pc = "failed" -> (IF Len(wlog) >= 2 THEN 4 ELSE IF Len(wlog) = 1 THEN 1 ELSE 0)
      [] OTHER -> 4

C11_Order ==
    \* Act 1 is written before any byte is read
    /\ (BLen(reply) > 0 \/ Len(tx) > 0 \/ Phase >= 1) =>
          (Len(wlog) >= 1 /\ wlog[1] = act1_initiator_message(HandshakeState(pubkey), my_privkey).msg)
    \* Act 3 is written only after the tag of a whole Act 2 has verified
    /\ Len(wlog) >= 2 =>
          /\ BLen(reply) = Act1Len /\ tx[1].kind = "good"
          /\ reply = peer_act2(Post1, ekeys[Len(ekeys)].epub)
          /\ BLen(wlog[2]) = 66
    \* no frame is sent or read before Act 3 is written and the keys derived
    /\ (used # {} \/ rx # <<>> \/ printed # <<>> \/ BLen(rspns) > 0 \/ Len(wlog) >= 3) =>
          (Len(wlog) >= 2 /\ BLen(sk) = DigestLen /\ BLen(rk) = DigestLen)
    /\ Phase = 4 <=> (BLen(sk) = DigestLen /\ BLen(rk) = DigestLen)

C11_Step ==
    /\ run' = run => (Phase' >= Phase /\ Len(wlog') >= Len(wlog))
    /\ run' # run => (Phase \in {0, 1, 4} /\ Phase' = 1)

\* C11: the connection goes through INIT, ACT1_SENT, ACT2_DONE, ACT3_DONE,
\* TRANSPORT_READY in this order and never back: Act 1 is written before a
\* byte is read, Act 3 only after the Act 2 tag has verified, and no
\* transport frame is sent or read before Act 3 is written and sk, rk exist.
C11_StateOrder == [](C11_Order) /\ [][C11_Step]_vars

\* both frames of the transport have been sent after a whole handshake
C11_Witness == Phase = 4 /\ Len(wlog) = 4 /\ Len(printed) >= 1

\* C12 as claimed: when main_loop has ended by an AssertionError or an
\* InvalidTag, writer.close() has been called.
C12_Claim ==
    (pc = "failed" /\ err \in {"AssertionError", "InvalidTag"}) => closed

\* C13: the Act 1 message is 50 bytes: the version byte 0x00, the 33-byte
\* ephemeral point, a 16-byte tag; the Act 3 message is 66 bytes: the
\* version byte, 49 bytes of encrypted static public key, a 16-byte tag.
C13_HandshakeSizes ==
    /\ Len(wlog) >= 1 =>
          /\ BLen(wlog[1]) = 50
          /\ Take(wlog[1], 1) = Raw(0, 1)
          /\ Slice(wlog[1], 1, 34) = ekeys[Len(ekeys)].epub
          /\ BLen(ekeys[Len(ekeys)].epub) = 33
          /\ BLen(Drop(wlog[1], 34)) = 16
    /\ (Len(wlog) >= 2 /\ pc \notin {"f_read", "f_done"}) =>
          /\ BLen(wlog[2]) = 66
          /\ Take(wlog[2], 1) = Raw(0, 1)
          /\ BLen(TagPlaintext(Slice(wlog[2], 1, 50))) = 33
          /\ BLen(TagPlaintext(Drop(wlog[2], 50))) = 0
          /\ BLen(Drop(wlog[2], 50)) = 16

\* Act 3 has been written
C13_Witness == Len(wlog) = 2 /\ pc = "read_init" /\ BLen(wlog[2]) = 66

\* The handshake of BOLT 8 written out for the keys and messages of the
\* connection: E its ephemeral pair, Re the point in the reply to Act 1.
E == ekeys[Len(ekeys)]
Re == Slice(reply, 1, 34)

\* the items the transcript absorbs, in order
Transcript ==
    <<prologue, pubkey, E.epub, Drop(wlog[1], 34), Re, Drop(reply, 34),
      IF Len(wlog) >= 2 THEN Slice(wlog[2], 1, 50) ELSE <<>> >>

\* h after the first k items
RECURSIVE Hk(_)
Hk(k) == IF k = 0 THEN H256(protocol_name)
         ELSE H256(BCat(Hk(k - 1), Transcript[k]))

Kdf1(ck, ikm) == Hmac(Hmac(ck, ikm), Raw(1, 1))
Kdf2(ck, ikm) == Hmac(Hmac(ck, ikm), BCat(Kdf1(ck, ikm), Raw(2, 1)))

DH(priv, pub) == H256(<<Seg("pnt", {priv[1].v, pub[1].v}, 1, PointLen)>>)

SS1 == DH(E.epriv, pubkey)
SS2 == DH(E.epriv, Re)
SS3 == DH(Take(my_privkey, 32), Re)
CK0 == H256(protocol_name)
CK1 == Kdf1(CK0, SS1)
CK2 == Kdf1(CK1, SS2)
CK3 == Kdf1(CK2, SS3)
K1 == Kdf2(CK0, SS1)
K2 == Kdf2(CK1, SS2)
K3 == Kdf2(CK2, SS3)

InHandshake == pc \notin {"idle", "f_send", "f_read", "f_done"} /\ Len(wlog) >= 1

\* C14: h is the chain that starts from SHA256(protocol name) and absorbs
\* the prologue, the responder's static key, the ephemeral point, the Act 1
\* tag, the peer's ephemeral point, the Act 2 tag and the Act 3 encrypted
\* static key, in this order and each once; each AEAD call of the handshake
\* has as associated data h after the items that precede it.
C14_TranscriptChain ==
    InHandshake =>
        /\ Drop(wlog[1], 34) = aead_encrypt(K1, 0, Hk(3), <<>>)
        /\ (pc = "act2" \/ at \in {166, 168}) => hs.h = Hk(4)
        /\ at \in {173, 176} => hs.h = Hk(5)
        /\ Len(wlog) >= 2 =>
              /\ hs.h = Hk(7)
              /\ Drop(reply, 34) = aead_encrypt(K2, 0, Hk(5), <<>>)
              /\ Slice(wlog[2], 1, 50)
                   = aead_encrypt(K2, 1, Hk(6), privkey_to_pubkey(my_privkey))
              /\ Drop(wlog[2], 50) = aead_encrypt(K3, 0, Hk(7), <<>>)

\* the transport runs with the transcript of the whole handshake
C14_Witness == pc = "send_ping" /\ hs.h = Hk(7) /\ Len(wlog) = 3

C15_Keys ==
    InHandshake =>
        /\ (pc = "act2" \/ at \in {166, 168, 173}) => hs.ck = CK1
        /\ at = 176 => hs.ck = CK2
        /\ Len(wlog) < 2 => (sk = <<>> /\ rk = <<>>)
        /\ Len(wlog) >= 2 =>
              /\ hs.ck = CK3
              /\ sk = Kdf1(CK3, <<>>)
              /\ rk = Kdf2(CK3, <<>>)

C15_Once == (run' = run /\ sk # <<>>) => (sk' = sk /\ rk' = rk /\ hs' = hs)

\* C15: after the derivation of each act ck is the first HKDF half of the
\* previous ck and the act's shared secret; sk and rk are the two halves of
\* HKDF(ck after Act 3, empty), set once and the same to the end of the
\* connection.
C15_ChainingKey == [](C15_Keys) /\ [][C15_Once]_vars

\* the connection has ended with the keys of its handshake
C15_Witness == pc = "done" /\ sk = Kdf1(CK3, <<>>) /\ rk = Kdf2(CK3, <<>>)

\* C16 as claimed: the ephemeral private scalar and point of a handshake are
\* not the static ones.
C16_Claim ==
    \A i \in 1..Len(ekeys) :
        /\ ekeys[i].epriv # Take(my_privkey, 32)
        /\ ekeys[i].epub # privkey_to_pubkey(my_privkey)

\* C17 as claimed: when the peer has sent a valid Act 2 reply, main_loop does
\* not fail in Act 2, in however many chunks the stream returns the reply.
C17_Claim ==
    (Len(tx) >= 1 /\ tx[1].kind = "good" /\ pc = "failed")
        => at \notin {166, 168, 173, 176}

C18_Step ==
    run' = run =>
        /\ Len(wlog') > Len(wlog) => rn' = rn
        /\ Len(printed') > Len(printed) => sn' = sn
        /\ sn' = sn \/ rn' = rn

\* C18: a send step of main_loop leaves rn as it is and a receive step
\* leaves sn as it is.
C18_IndependentCounters == [][C18_Step]_vars

\* the two counters differ: sends and receives have both advanced
C18_Witness == sn = 4 /\ rn = 2 /\ pc = "read_pong"

\* C20: send_message for a plaintext of N <= 65535 bytes writes, in one
\* write, 18 + N + 16 bytes: the encryption under sn of N as two bytes, most
\* significant first, then the encryption under sn + 1 of the plaintext; for
\* N >= 65536 it raises and nothing is written.
C20_FrameWellFormed ==
    (pc \in {"f_read", "f_done", "failed"} /\ Len(tx) = 1) =>
        LET msg == tx[1].msg
            N == BLen(msg)
        IN /\ N <= 65535 =>
                /\ Len(wlog) = 1
                /\ BLen(wlog[1]) = 18 + N + 16
                /\ Take(wlog[1], 18)
                     = aead_encrypt(sk, sn, <<>>, RawBytes(<<N \div 256, N % 256>>))
                /\ Drop(wlog[1], 18) = aead_encrypt(sk, sn + 1, <<>>, msg)
           /\ N >= 65536 =>
                /\ wlog = <<>> /\ inbox = <<>>
                /\ pc = "failed" /\ err # ""

\* a plaintext of more than 65535 bytes has been refused
C20_Witness ==
    pc = "failed" /\ Len(tx) = 1 /\ BLen(tx[1].msg) >= 65536 /\ wlog = <<>>

\* what the handshake state, the keys and the counters of a connection are
\* when it runs alone, given the messages of its own stream
AloneState ==
    InHandshake =>
        /\ pc = "act2" => (hs.h = Hk(4) /\ hs.ck = CK1 /\ sk = <<>> /\ rk = <<>>)
        /\ Len(wlog) >= 2 =>
              /\ hs.h = Hk(7) /\ hs.ck = CK3
              /\ sk = Kdf1(CK3, <<>>) /\ rk = Kdf2(CK3, <<>>)
        /\ sn = 2 * FramesSent
        /\ rn = 2 * Len(printed)

C19_Step ==
    IF nsw' # nsw
    THEN Conn' = other /\ other' = Conn
    ELSE other' = other

\* C19: with two main_loop connections interleaved at their awaits, a step
\* of the running connection leaves everything of the suspended one as it
\* is (h, ck, sk, rk, sn, rn and the rest of its state), a resumed connection
\* finds what it left, and the state of a connection is at every point that
\* of a connection running alone on the same stream.
C19_Isolation == [](AloneState) /\ [][C19_Step]_vars

\* one connection has ended after the other started and got its keys in between
C19_Witness ==
    /\ nsw = 2 /\ pc = "done"
    /\ other.pc \in {"read_init", "read_pong"} /\ BLen(other.sk) = DigestLen

====
